---- MODULE Spec2Model ----
(***************************************************************************)
(* TunnelAgent (src/lib/TunnelAgent.js): the per-client pool of tunnel     *)
(* sockets.  One agent, its net.Server, the tunnel sockets the client      *)
(* dials, the createConnection callbacks of the consumers and the          *)
(* setTimeout(0) hand-offs in flight.  Every action is one run-to-         *)
(* completion callback of the event loop.                                  *)
(***************************************************************************)
EXTENDS Integers, Sequences, FiniteSets

\* ------------------------------------------------------------ bounds
\* options.maxTcpSockets of the modelled agent
maxTcpSockets == 2
\* tunnel sockets the client dials over a run
MaxSockets == 3
\* createConnection calls over a run
MaxCalls == 3
\* destroy() calls over a run
MaxDestroy == 2

Sockets == 1..MaxSockets
Callbacks == 1..MaxCalls
NoSocket == 0
NoCallback == 0

VARIABLES
    availableSockets,   \* this.availableSockets: queue of sockets
    waitingCreateConn,  \* this.waitingCreateConn: queue of callbacks
    connectedSockets,   \* this.connectedSockets
    started,            \* this.started
    closed,             \* this.closed
    agentIps,           \* this.agentIps
    server,             \* this.server: "idle", "listening" or "closed" (no handle)
    closeNT,            \* 'close' events of the server queued with process.nextTick
    destroyCalls,       \* destroy() calls made so far
    sockState,          \* per socket: "fresh", "open", "destroyed" (its 'close' is due), "closed"
    rejected,           \* sockets destroyed at the ceiling (line 121)
    admitted,           \* sockets that got past the ceiling (handlers registered, counted)
    decs,               \* per socket: runs of its 'close' handler (line 132)
    timers,             \* setTimeout(0) hand-offs not yet run: queue of <<callback, socket>>
    deliveries,         \* every callback invocation so far, in order
    effects,            \* callback invocations and events raised by the last step, in order
    lastEv,             \* the last of 'online' and 'offline' raised so far, or "none"
    nextSock,           \* the next socket to dial
    nextCb              \* the next createConnection callback

agentVars == <<availableSockets, waitingCreateConn, connectedSockets, started, closed, agentIps>>
envVars == <<server, closeNT, destroyCalls, sockState, rejected, admitted, decs, timers>>
logVars == <<deliveries, effects, lastEv, nextSock, nextCb>>
vars == <<agentVars, envVars, logVars>>

\* ------------------------------------------------------------ remote addresses
\* socket.remoteAddress, as the parsed form of the string
Addr4 == [kind |-> "v4", parts |-> <<1, 2, 3, 4>>]
\* ::ffff:1.2.3.4
Addr6Mapped == [kind |-> "v6", parts |-> <<0, 0, 0, 0, 0, 65535, 258, 772>>]
\* ::1
Addr6 == [kind |-> "v6", parts |-> <<0, 0, 0, 0, 0, 0, 0, 1>>]
AddrInvalid == [kind |-> "invalid", parts |-> <<>>]
Addresses == {Addr4, Addr6Mapped, Addr6, AddrInvalid}
NoIp == [kind |-> "none", parts |-> <<>>]

\* ip.isIPv4MappedAddress(): ::ffff:0:0/96
IsIPv4Mapped(a) ==
    /\ a.kind = "v6"
    /\ \A i \in 1..5 : a.parts[i] = 0
    /\ a.parts[6] = 65535

\* ip.toIPv4Address(): the last two groups as four octets
ToIPv4(a) ==
    [kind |-> "v4",
     parts |-> <<a.parts[7] \div 256, a.parts[7] % 256, a.parts[8] \div 256, a.parts[8] % 256>>]

\* lines 158-173: the sanitized address, or none
SanitizeIp(a) ==
    IF a.kind = "v4" THEN a
    ELSE IF a.kind = "v6" THEN (IF IsIPv4Mapped(a) THEN ToIPv4(a) ELSE a)
    ELSE NoIp

\* lines 176-178
SaveIp(ips, ip) ==
    IF ip # NoIp /\ ~(\E i \in 1..Len(ips) : ips[i] = ip) THEN Append(ips, ip) ELSE ips

\* ------------------------------------------------------------ helpers
SeqToSet(q) == {q[i] : i \in 1..Len(q)}

\* availableSockets.splice(indexOf(x), 1): the first occurrence removed
RECURSIVE RemoveFirst(_, _)
RemoveFirst(q, x) ==
    IF q = <<>> THEN <<>>
    ELSE IF Head(q) = x THEN Tail(q)
    ELSE <<Head(q)>> \o RemoveFirst(Tail(q), x)

\* cb(err, socket) seen from outside; closed is this.closed at that moment
CbCall(c, s, err, via, cl) ==
    [op |-> "cb", cb |-> c, sock |-> s, err |-> err, via |-> via, ev |-> "none", closed |-> cl]
\* this.emit(ev)
Emit(ev, cl) ==
    [op |-> "emit", cb |-> NoCallback, sock |-> NoSocket, err |-> "none", via |-> "none",
     ev |-> ev, closed |-> cl]

OpenSockets(st) == {s \in Sockets : st[s] = "open"}

\* net.Server._emitCloseIfDrained after a step: a server without a handle (closed, or
\* never listening) and without a connection queues its 'close' event
EmitCloseIfDrained(srv, st, changed) ==
    IF changed /\ srv # "listening" /\ OpenSockets(st) = {}
    THEN closeNT + 1 ELSE closeNT

\* A process.nextTick callback runs before any I/O, timer or close callback
TickPending == closeNT > 0

\* socket.destroy() on the sockets of D (no effect on one already destroyed)
DestroySockets(D, srv) ==
    /\ sockState' = [s \in Sockets |->
                        IF s \in D /\ sockState[s] = "open" THEN "destroyed" ELSE sockState[s]]
    /\ closeNT' = EmitCloseIfDrained(srv, sockState', \E s \in D : sockState[s] = "open")

\* ------------------------------------------------------------ initial state
\* lines 28-59
Init ==
    /\ availableSockets = <<>>
    /\ waitingCreateConn = <<>>
    /\ connectedSockets = 0
    /\ started = FALSE
    /\ closed = FALSE
    /\ agentIps = <<>>
    /\ server = "idle"
    /\ closeNT = 0
    /\ destroyCalls = 0
    /\ sockState = [s \in Sockets |-> "fresh"]
    /\ rejected = {}
    /\ admitted = {}
    /\ decs = [s \in Sockets |-> 0]
    /\ timers = <<>>
    /\ deliveries = <<>>
    /\ effects = <<>>
    /\ lastEv = "none"
    /\ nextSock = 1
    /\ nextCb = 1

\* ------------------------------------------------------------ listen / destroy
\* lines 67-101: listen(); a second call throws and changes nothing
Listen ==
    /\ ~started
    /\ started' = TRUE
    /\ server' = "listening"
    /\ effects' = <<>>
    /\ UNCHANGED <<availableSockets, waitingCreateConn, connectedSockets, closed, agentIps,
                   closeNT, destroyCalls, sockState, rejected, admitted, decs, timers,
                   deliveries, lastEv, nextSock, nextCb>>

\* Sockets handed to a consumer and still open: the ones http.Agent may be tracking
DeliveredOpen ==
    {s \in Sockets : sockState[s] = "open"
                     /\ \E i \in 1..Len(deliveries) : deliveries[i].sock = s}

\* lines 228-231: server.close() stops the listener; the server raises 'close' once
\* no connection is left, also when it never listened.  super.destroy() destroys the
\* sockets http.Agent tracks.
Destroy ==
    /\ destroyCalls < MaxDestroy
    /\ destroyCalls' = destroyCalls + 1
    /\ server' = IF server = "listening" THEN "closed" ELSE server
    /\ \E D \in SUBSET DeliveredOpen :
          sockState' = [s \in Sockets |-> IF s \in D THEN "destroyed" ELSE sockState[s]]
    /\ closeNT' = EmitCloseIfDrained(server', sockState', TRUE)
    /\ effects' = <<>>
    /\ UNCHANGED <<agentVars, rejected, admitted, decs, timers, deliveries, lastEv, nextSock,
                   nextCb>>

\* ------------------------------------------------------------ _onClose
\* lines 107-109: every parked callback, in order, gets the 'closed' error
Flush(q, cl) == [i \in 1..Len(q) |-> CbCall(q[i], NoSocket, "closed", "flush", cl)]

\* Fault: the flag raised after the flush instead of before it
OnCloseFlagLast ==
    /\ closeNT > 0
    /\ closeNT' = closeNT - 1
    /\ IF started
       THEN /\ closed' = TRUE
            /\ effects' = Flush(waitingCreateConn, closed) \o <<Emit("end", closed')>>
            /\ deliveries' = deliveries \o Flush(waitingCreateConn, closed)
            /\ waitingCreateConn' = <<>>
       ELSE /\ effects' = <<>>
            /\ UNCHANGED <<closed, deliveries, waitingCreateConn>>
    /\ UNCHANGED <<availableSockets, connectedSockets, started, agentIps, server, destroyCalls,
                   sockState, rejected, admitted, decs, timers, lastEv, nextSock, nextCb>>

\* The server's 'close' event: it runs _onClose (lines 103-112) once listen() has
\* registered it (line 73), and nothing before that
OnClose ==
    /\ closeNT > 0
    /\ closeNT' = closeNT - 1
    /\ IF started
       THEN /\ closed' = TRUE
            /\ effects' = Flush(waitingCreateConn, closed') \o <<Emit("end", closed')>>
            /\ deliveries' = deliveries \o Flush(waitingCreateConn, closed')
            /\ waitingCreateConn' = <<>>
       ELSE /\ effects' = <<>>
            /\ UNCHANGED <<closed, deliveries, waitingCreateConn>>
    /\ UNCHANGED <<availableSockets, connectedSockets, started, agentIps, server, destroyCalls,
                   sockState, rejected, admitted, decs, timers, lastEv, nextSock, nextCb>>

\* ------------------------------------------------------------ _onConnection
\* Fault: the ceiling test off by one
OverBudgetOffByOne == connectedSockets > maxTcpSockets

\* line 119
OverBudget == connectedSockets >= maxTcpSockets

\* Fault: the queue of callbacks never consulted
HasWaiterNever == FALSE

\* lines 188-189: a queued callback exists
HasWaiter == waitingCreateConn # <<>>

\* Fault: pop() for shift()
PopIndex(q) == Len(q)

\* line 188: shift() takes the first
ShiftIndex(q) == 1

\* Fault: the element read but left in the queue
RemoveAtNone(q, i) == q

\* shift(): the queue without its element i
RemoveAt(q, i) == [j \in 1..(Len(q) - 1) |-> IF j < i THEN q[j] ELSE q[j + 1]]

\* Fault: no return after the hand-off, the socket queued as available as well
AfterHandOffFallsThrough(q, s) == Append(q, s)

\* line 194: the hand-off returns before the socket is queued
AfterHandOff(q, s) == q

\* Fault: the callback called within the admission instead of from the timer
CalledAtOnce(c, s) == <<CbCall(c, s, "none", "handoff", closed)>>

\* lines 191-194: the admission only schedules the call and returns
CalledInAdmission(c, s) == <<>>

\* line 153
WasOffline == connectedSockets = 0

\* Fault: the handlers registered before the ceiling check
AdmitAlways(s, over) == admitted \cup {s}

\* lines 125-151: the handlers are registered only past the ceiling check
Admit(s, over) == IF over THEN admitted ELSE admitted \cup {s}

\* lines 115-199, the server's 'connection' event for socket s dialled from address a
OnConnection(s, a) ==
    /\ ~TickPending
    /\ server = "listening"
    /\ s = nextSock
    /\ s \in Sockets
    /\ nextSock' = s + 1
    /\ admitted' = Admit(s, OverBudget)
    /\ IF OverBudget
       THEN /\ sockState' = [sockState EXCEPT ![s] = "destroyed"]
            /\ rejected' = rejected \cup {s}
            /\ effects' = <<>>
            /\ UNCHANGED <<agentVars, timers, lastEv>>
       ELSE /\ sockState' = [sockState EXCEPT ![s] = "open"]
            /\ effects' = IF WasOffline THEN <<Emit("online", closed)>> ELSE <<>>
            /\ lastEv' = IF WasOffline THEN "online" ELSE lastEv
            /\ agentIps' = SaveIp(agentIps, SanitizeIp(a))
            /\ connectedSockets' = connectedSockets + 1
            /\ IF HasWaiter
               THEN /\ timers' = Append(timers,
                                        <<waitingCreateConn[ShiftIndex(waitingCreateConn)], s>>)
                    /\ waitingCreateConn' =
                           RemoveAt(waitingCreateConn, ShiftIndex(waitingCreateConn))
                    /\ availableSockets' = AfterHandOff(availableSockets, s)
               ELSE /\ availableSockets' = Append(availableSockets, s)
                    /\ UNCHANGED <<waitingCreateConn, timers>>
            /\ UNCHANGED <<started, closed, rejected>>
    /\ deliveries' = deliveries \o (IF ~OverBudget /\ HasWaiter
                                    THEN CalledInAdmission(
                                            waitingCreateConn[ShiftIndex(waitingCreateConn)], s)
                                    ELSE <<>>)
    /\ UNCHANGED <<server, closeNT, destroyCalls, decs, nextCb>>

\* lines 191-193: the deferred hand-off runs; timers of one duration run in order
FireTimer ==
    /\ ~TickPending
    /\ timers # <<>>
    /\ timers' = Tail(timers)
    /\ effects' = <<CbCall(Head(timers)[1], Head(timers)[2], "none", "handoff", closed)>>
    /\ deliveries' = deliveries \o effects'
    /\ UNCHANGED <<agentVars, server, closeNT, destroyCalls, sockState, rejected, admitted,
                   decs, lastEv, nextSock, nextCb>>

\* ------------------------------------------------------------ socket events
\* Fault: splice(idx) for splice(idx, 1), the sockets behind the closed one lost
RECURSIVE SpliceToEnd(_, _)
SpliceToEnd(q, s) ==
    IF q = <<>> THEN <<>>
    ELSE IF Head(q) = s THEN <<>>
    ELSE <<Head(q)>> \o SpliceToEnd(Tail(q), s)

\* Fault: the closed socket left in the queue
SpliceNone(q, s) == q

\* lines 134-137
Splice(q, s) == RemoveFirst(q, s)

\* Fault: 'offline' raised with one socket still connected
AllDisconnectedEarly(n) == n <= 1

\* line 140
AllDisconnected(n) == n <= 0

\* lines 130-144, the socket's 'close' event (raised once, after it was destroyed)
SocketClose(s) ==
    /\ ~TickPending
    /\ sockState[s] = "destroyed"
    /\ sockState' = [sockState EXCEPT ![s] = "closed"]
    /\ IF s \in admitted
       THEN /\ connectedSockets' = connectedSockets - 1
            /\ decs' = [decs EXCEPT ![s] = @ + 1]
            /\ availableSockets' = Splice(availableSockets, s)
            /\ effects' = IF AllDisconnected(connectedSockets')
                          THEN <<Emit("offline", closed)>> ELSE <<>>
            /\ lastEv' = IF AllDisconnected(connectedSockets') THEN "offline" ELSE lastEv
       ELSE /\ effects' = <<>>
            /\ UNCHANGED <<connectedSockets, decs, availableSockets, lastEv>>
    /\ UNCHANGED <<waitingCreateConn, started, closed, agentIps, server, closeNT, destroyCalls,
                   rejected, admitted, timers, deliveries, nextSock, nextCb>>

\* What a socket event other than 'close' leaves alone
SocketEventFrame ==
    /\ effects' = <<>>
    /\ UNCHANGED <<agentVars, server, destroyCalls, rejected, admitted, decs, timers,
                   deliveries, lastEv, nextSock, nextCb>>

\* Fault: the timeout handler counting the socket out as well
SocketTimeoutCounts(s) ==
    /\ ~TickPending
    /\ sockState[s] = "open"
    /\ DestroySockets({s}, server)
    /\ connectedSockets' = connectedSockets - 1
    /\ decs' = [decs EXCEPT ![s] = @ + 1]
    /\ effects' = <<>>
    /\ UNCHANGED <<availableSockets, waitingCreateConn, started, closed, agentIps, server,
                   destroyCalls, rejected, admitted, timers, deliveries, lastEv, nextSock,
                   nextCb>>

\* lines 125-128, the idle timeout
SocketTimeout(s) ==
    /\ ~TickPending
    /\ sockState[s] = "open"
    /\ DestroySockets({s}, server)
    /\ SocketEventFrame

\* lines 147-151, a transport error: 'close' follows
SocketError(s) ==
    /\ ~TickPending
    /\ sockState[s] = "open"
    /\ DestroySockets({s}, server)
    /\ SocketEventFrame

\* The peer closes the connection: the socket is destroyed, 'close' follows (line 130)
SocketEnd(s) ==
    /\ ~TickPending
    /\ sockState[s] = "open"
    /\ DestroySockets({s}, server)
    /\ SocketEventFrame

\* The consumer that was handed s destroys it (lines 192, 225: the socket is the consumer's);
\* destroying a socket already destroyed does nothing
ConsumerDestroy(s) ==
    /\ \E i \in 1..Len(deliveries) : deliveries[i].sock = s
    /\ sockState[s] \in {"open", "destroyed"}
    /\ DestroySockets({s}, server)
    /\ SocketEventFrame

\* ------------------------------------------------------------ createConnection
\* Fault: every call parked
NoneAvailableAlways == TRUE

\* lines 213-217: shift() found no socket
NoneAvailable == availableSockets = <<>>

\* Fault: pop() for shift()
SocketIndexLast(q) == Len(q)

\* line 213: shift() takes the first
SocketIndex(q) == 1

\* Fault: unshift() for push()
ParkAtHead(q, c) == <<c>> \o q

\* line 218
Park(q, c) == Append(q, c)

\* lines 204-226, called with the fresh callback c
CreateConnection(c) ==
    /\ c = nextCb
    /\ c \in Callbacks
    /\ nextCb' = c + 1
    /\ IF closed
       THEN /\ effects' = <<CbCall(c, NoSocket, "closed", "sync", closed)>>
            /\ UNCHANGED <<availableSockets, waitingCreateConn>>
       ELSE IF NoneAvailable
       THEN /\ waitingCreateConn' = Park(waitingCreateConn, c)
            /\ effects' = <<>>
            /\ UNCHANGED availableSockets
       ELSE /\ availableSockets' = RemoveAt(availableSockets, SocketIndex(availableSockets))
            /\ effects' = <<CbCall(c, availableSockets[SocketIndex(availableSockets)],
                                   "none", "sync", closed)>>
            /\ UNCHANGED waitingCreateConn
    /\ deliveries' = deliveries \o effects'
    /\ UNCHANGED <<connectedSockets, started, closed, agentIps, envVars, lastEv, nextSock>>

\* ------------------------------------------------------------ specification
Next ==
    \/ Listen
    \/ Destroy
    \/ OnClose
    \/ \E a \in Addresses : OnConnection(nextSock, a)
    \/ FireTimer
    \/ \E s \in Sockets : SocketClose(s)
    \/ \E s \in Sockets : SocketTimeout(s)
    \/ \E s \in Sockets : SocketError(s)
    \/ \E s \in Sockets : SocketEnd(s)
    \/ \E s \in Sockets : ConsumerDestroy(s)
    \/ CreateConnection(nextCb)

Spec == Init /\ [][Next]_vars

TypeOK ==
    /\ connectedSockets \in Int
    /\ SeqToSet(availableSockets) \subseteq Sockets
    /\ SeqToSet(waitingCreateConn) \subseteq Callbacks
    /\ closed \in BOOLEAN /\ started \in BOOLEAN
    /\ server \in {"idle", "listening", "closed"}
    /\ admitted \subseteq Sockets

\* ------------------------------------------------------------ properties
\* Sockets handed to some callback so far
Delivered == {deliveries[i].sock : i \in 1..Len(deliveries)} \ {NoSocket}

\* Sockets of a scheduled hand-off that has not run yet
InFlight == {timers[i][2] : i \in 1..Len(timers)}

\* Sockets handed to a callback, admitted and not closed yet
CheckedOut == {s \in Delivered : s \in admitted /\ sockState[s] # "closed"}

\* C1: availableSockets and waitingCreateConn are never both non-empty.
C1_NeverBothNonEmpty == ~(availableSockets # <<>> /\ waitingCreateConn # <<>>)

\* A socket was admitted while two callbacks were parked: one hand-off is scheduled,
\* the other callback still waits
C1_Witness == timers # <<>> /\ waitingCreateConn # <<>> /\ connectedSockets > 0

\* C2: 0 <= connectedSockets <= maxTcpSockets in every reachable state.
C2_CounterBounded == 0 <= connectedSockets /\ connectedSockets <= maxTcpSockets

\* A dial beyond the ceiling was turned away with the counter at the ceiling
C2_Witness == connectedSockets = maxTcpSockets /\ rejected # {}

\* C3 as stated: connectedSockets = |availableSockets| + |checked out|.
C3_CountIsAvailablePlusCheckedOut ==
    connectedSockets = Len(availableSockets) + Cardinality(CheckedOut)

\* C3 amended: connectedSockets = |availableSockets| + |checked out| + the number of
\* sockets taken for a parked callback whose deferred hand-off has not run yet and
\* that have not closed.
C3_CountWithHandOffs ==
    connectedSockets = Len(availableSockets) + Cardinality(CheckedOut)
                       + Cardinality({s \in InFlight : sockState[s] # "closed"})

\* A hand-off is pending for an open socket beside a checked-out socket, after
\* another admitted socket has closed
C3_Witness ==
    /\ \E s \in InFlight : sockState[s] = "open"
    /\ CheckedOut # {}
    /\ \E s \in Sockets : s \in admitted /\ sockState[s] = "closed"

\* The last callback invocation recorded, if the step made one
NewDeliveries == SubSeq(deliveries', Len(deliveries) + 1, Len(deliveries'))

\* C4: after destroy() every createConnection call completes at once with the
\* 'closed' error: it gets no socket from availableSockets and is not parked.
\* (Stated for an agent whose listener destroy() has closed, and for the calls made
\* once the turn of the event loop that called destroy() is over, so that a 'close'
\* the server has already queued has been raised.)
C4_ClosedErrorAfterDestroy ==
    [][(server = "closed" /\ ~TickPending /\ nextCb' # nextCb)
         => /\ Len(effects') = 1
            /\ effects'[1].op = "cb" /\ effects'[1].cb = nextCb /\ effects'[1].err = "closed"
            /\ availableSockets' = availableSockets
            /\ waitingCreateConn' = waitingCreateConn]_vars

\* C5: once closed is set no socket is delivered to a callback (a hand-off scheduled
\* before the close included), none is added to availableSockets or counted.
C5_NothingHandedOutOnceClosed ==
    [][closed
         => /\ \A i \in 1..Len(NewDeliveries) : NewDeliveries[i].sock = NoSocket
            /\ SeqToSet(availableSockets') \subseteq SeqToSet(availableSockets)
            /\ connectedSockets' <= connectedSockets
            /\ admitted' = admitted]_vars

\* C6: the listener's close (the server's 'close' event on an agent that listen()
\* has started) sets closed first, then completes every callback parked
\* at that moment with 'closed', in order, leaves waitingCreateConn empty and raises
\* 'end' last; none of those callbacks is pending afterwards.
C6_CloseCascade ==
    [][(closeNT' < closeNT /\ started)
         => LET n == Len(waitingCreateConn) IN
            /\ closed'
            /\ waitingCreateConn' = <<>>
            /\ Len(effects') = n + 1
            /\ \A i \in 1..n :
                  /\ effects'[i].op = "cb" /\ effects'[i].cb = waitingCreateConn[i]
                  /\ effects'[i].err = "closed" /\ effects'[i].sock = NoSocket
                  /\ effects'[i].closed
            /\ effects'[n + 1].op = "emit" /\ effects'[n + 1].ev = "end"
            /\ effects'[n + 1].closed
            /\ \A i \in 1..n : \E j \in 1..Len(deliveries') :
                  deliveries'[j].cb = waitingCreateConn[i] /\ deliveries'[j].err = "closed"]_vars

\* The close has just completed two parked callbacks and raised 'end'
C6_Witness ==
    /\ Len(effects) = 3
    /\ effects[1].via = "flush" /\ effects[2].via = "flush"
    /\ effects[3].ev = "end"
    /\ closed /\ waitingCreateConn = <<>>

\* The accept of the next socket hands it to the callback at the head of the queue
HandedToHead ==
    /\ timers' = Append(timers, <<Head(waitingCreateConn), nextSock>>)
    /\ waitingCreateConn' = Tail(waitingCreateConn)
    /\ availableSockets' = availableSockets
    /\ sockState'[nextSock] = "open"

\* The deferred hand-offs run in the order scheduled, each delivering its socket to
\* its callback
HandOffRuns ==
    (Len(timers') < Len(timers))
       => /\ timers' = Tail(timers)
          /\ Len(NewDeliveries) = 1
          /\ NewDeliveries[1].cb = Head(timers)[1]
          /\ NewDeliveries[1].sock = Head(timers)[2]
          /\ NewDeliveries[1].err = "none"

\* C7 as stated: with a callback parked on a non-closed agent, the next accepted
\* socket is handed to the head of the queue whatever the other sockets' state.
C7_NextSocketServesHead ==
    [][(waitingCreateConn # <<>> /\ ~closed /\ nextSock' # nextSock) => HandedToHead]_vars

\* C7 amended: with a callback parked on a non-closed agent, the next socket accepted
\* while connectedSockets < maxTcpSockets is taken for the head of the queue (removed
\* from the queue, hand-off scheduled, socket neither destroyed nor queued as
\* available) and the hand-off delivers that socket to that callback; a socket
\* accepted at the ceiling is destroyed and the callback stays parked.
C7_NextAdmittedSocketServesHead ==
    [][/\ (waitingCreateConn # <<>> /\ ~closed /\ nextSock' # nextSock)
          => IF connectedSockets < maxTcpSockets
             THEN HandedToHead
             ELSE /\ sockState'[nextSock] = "destroyed"
                  /\ waitingCreateConn' = waitingCreateConn
                  /\ timers' = timers
       /\ HandOffRuns]_vars

\* A socket taken for the first parked callback has been delivered to it while the
\* two other sockets were checked out or pending
C7_Witness ==
    /\ \E i \in 1..Len(deliveries) :
          deliveries[i].via = "handoff" /\ deliveries[i].sock > 1
    /\ connectedSockets = maxTcpSockets

\* Callbacks that have been parked at some time
ParkedEver ==
    SeqToSet(waitingCreateConn) \cup {timers[i][1] : i \in 1..Len(timers)}
    \cup {deliveries[i].cb : i \in {k \in 1..Len(deliveries) : deliveries[k].via # "sync"}}

\* C8: parked callbacks are served first in, first out: a callback parked after
\* another is never delivered a socket before it, and the earlier one's socket was
\* admitted earlier (callbacks and sockets are numbered in order of call and accept).
C8_WaitersServedInOrder ==
    \A j \in 1..Len(deliveries) :
       deliveries[j].via = "handoff"
          => \A c1 \in ParkedEver :
                c1 < deliveries[j].cb
                   => \E i \in 1..(j - 1) :
                         /\ deliveries[i].cb = c1
                         /\ deliveries[i].sock # NoSocket
                         /\ deliveries[i].sock < deliveries[j].sock

\* Two callbacks parked one after the other have both been served by hand-offs, in
\* the order they were parked
C8_Witness ==
    \E i, j \in 1..Len(deliveries) :
       /\ i < j
       /\ deliveries[i].via = "handoff" /\ deliveries[j].via = "handoff"
       /\ deliveries[j].cb = deliveries[i].cb + 1
       /\ deliveries[j].sock > deliveries[i].sock + 1

\* C9: connectedSockets is decremented exactly once for every admitted socket that
\* closes, whatever destroyed it, and never for a socket still connected.
C9_DecrementedOncePerClosedSocket ==
    /\ \A s \in Sockets :
          decs[s] = IF s \in admitted /\ sockState[s] = "closed" THEN 1 ELSE 0
    /\ connectedSockets = Cardinality({s \in admitted : sockState[s] # "closed"})

\* Two admitted sockets have closed, one idle and one in a consumer's hands
C9_Witness ==
    \E s1, s2 \in admitted :
       /\ sockState[s1] = "closed" /\ sockState[s2] = "closed"
       /\ s1 \in Delivered /\ s2 \notin Delivered
       /\ connectedSockets = 1

\* C10: a socket accepted at the ceiling is destroyed and nothing else changes: the
\* counter, both queues, agentIps and closed keep their values, no event is raised,
\* and the later close of that socket leaves the counter alone and raises no event.
C10_RejectLeavesAgentAlone ==
    [][/\ (nextSock' # nextSock /\ connectedSockets >= maxTcpSockets)
          => /\ sockState'[nextSock] = "destroyed"
             /\ UNCHANGED <<connectedSockets, availableSockets, waitingCreateConn,
                            agentIps, closed, timers, deliveries>>
             /\ effects' = <<>>
       /\ \A s \in rejected :
             (sockState[s] = "destroyed" /\ sockState'[s] = "closed")
                => /\ UNCHANGED <<connectedSockets, availableSockets, waitingCreateConn,
                                  agentIps, closed, decs>>
                   /\ effects' = <<>>]_vars

\* The socket turned away at the ceiling has closed and the counter is still at the
\* ceiling
C10_Witness ==
    /\ \E s \in rejected : sockState[s] = "closed"
    /\ connectedSockets = maxTcpSockets
    /\ waitingCreateConn # <<>>

\* The events raised by the step just taken
Raised(ev) == \E i \in 1..Len(effects') : effects'[i].op = "emit" /\ effects'[i].ev = ev

\* C11: 'online' is raised exactly by the admission that takes connectedSockets from
\* 0 to 1 and 'offline' exactly by the socket close that takes it to 0; the two
\* alternate, 'online' first.
C11_OnlineOfflineAlternate ==
    [][/\ Raised("online")
          <=> (nextSock' # nextSock /\ connectedSockets = 0 /\ connectedSockets' = 1)
       /\ Raised("offline")
          <=> (connectedSockets' = 0 /\ connectedSockets = 1 /\ nextSock' = nextSock)
       /\ Raised("online") => (lastEv # "online" /\ lastEv' = "online")
       /\ Raised("offline") => (lastEv = "online" /\ lastEv' = "offline")]_vars

\* 'online' has just been raised for the second time: an admitted socket had closed
\* ('offline') before this admission
C11_Witness ==
    /\ Len(effects) = 1 /\ effects[1].ev = "online"
    /\ lastEv = "online"
    /\ connectedSockets = 1
    /\ \E s \in admitted : sockState[s] = "closed"

\* The deliveries of a socket, as positions of the log
SocketDeliveries == {i \in 1..Len(deliveries) : deliveries[i].sock # NoSocket}

\* C12: a tunnel socket is single-use: it is delivered to at most one callback, is
\* never both in availableSockets and delivered (or on its way to a callback), and
\* so is never back in availableSockets once delivered.
C12_SingleUse ==
    /\ \A i, j \in SocketDeliveries : deliveries[i].sock = deliveries[j].sock => i = j
    /\ SeqToSet(availableSockets) \cap Delivered = {}
    /\ SeqToSet(availableSockets) \cap InFlight = {}
    /\ InFlight \cap Delivered = {}
    /\ \A i, j \in 1..Len(timers) : timers[i][2] = timers[j][2] => i = j

\* One socket went to a callback at once, one through a hand-off, a third is idle
C12_Witness ==
    /\ \E i \in SocketDeliveries : deliveries[i].via = "sync"
    /\ \E i \in SocketDeliveries : deliveries[i].via = "handoff"
    /\ availableSockets # <<>>

\* C13: createConnection on a non-closed agent with an idle socket calls the callback
\* within the call with the head of availableSockets and removes exactly that socket;
\* sockets so leave the queue in the order they were admitted into it.
C13_CheckoutTakesHead ==
    [][(nextCb' # nextCb /\ ~closed /\ availableSockets # <<>>)
         => /\ effects' = <<CbCall(nextCb, Head(availableSockets), "none", "sync", FALSE)>>
            /\ NewDeliveries = effects'
            /\ availableSockets' = Tail(availableSockets)
            /\ waitingCreateConn' = waitingCreateConn
            /\ \A i \in 1..Len(availableSockets') :
                  Head(availableSockets) < availableSockets'[i]]_vars

\* Two idle sockets have been checked out, in the order admitted, and another socket
\* is idle
C13_Witness ==
    /\ Len(deliveries) >= 2
    /\ deliveries[1].via = "sync" /\ deliveries[2].via = "sync"
    /\ deliveries[1].sock # NoSocket /\ deliveries[1].sock < deliveries[2].sock
    /\ availableSockets # <<>>

\* C14: a createConnection call made with availableSockets empty calls its callback
\* within the call only on a closed agent, with the 'closed' error; otherwise the
\* callback is not called and goes to the tail of waitingCreateConn; connectedSockets
\* and availableSockets keep their values.
C14_ParksUnlessClosed ==
    [][(nextCb' # nextCb /\ availableSockets = <<>>)
         => /\ IF closed
               THEN /\ effects' = <<CbCall(nextCb, NoSocket, "closed", "sync", TRUE)>>
                    /\ NewDeliveries = effects'
                    /\ waitingCreateConn' = waitingCreateConn
               ELSE /\ effects' = <<>>
                    /\ NewDeliveries = <<>>
                    /\ waitingCreateConn' = waitingCreateConn \o <<nextCb>>
            /\ connectedSockets' = connectedSockets
            /\ availableSockets' = availableSockets]_vars

\* A second callback was parked behind the first; a later call on the closed agent
\* got the error at once
C14_Witness ==
    /\ closed
    /\ \E i, j, k \in 1..Len(deliveries) :
          /\ deliveries[i].via = "flush" /\ deliveries[j].via = "flush"
          /\ deliveries[i].cb < deliveries[j].cb /\ i < j
          /\ deliveries[k].via = "sync" /\ deliveries[k].err = "closed"

\* The queue without socket s, the others in place
Without(q, s) == SelectSeq(q, LAMBDA x : x # s)

\* C15: an error, idle timeout or peer close on one socket, and the close that
\* follows, are recovered locally: the step only takes that socket out of
\* availableSockets and counts it out (raising 'offline' at most); closed, the parked
\* callbacks, the pending hand-offs, agentIps and the other sockets are left alone,
\* 'end' is not raised and the listener keeps its state, so sockets are still admitted.
C15_SocketFailureIsLocal ==
    [][\A s \in admitted :
          (sockState'[s] # sockState[s] /\ sockState[s] \in {"open", "destroyed"}
           /\ destroyCalls' = destroyCalls)
             => /\ closed' = closed /\ started' = started /\ server' = server
                /\ ~Raised("end") /\ ~Raised("online")
                /\ waitingCreateConn' = waitingCreateConn
                /\ timers' = timers
                /\ deliveries' = deliveries
                /\ agentIps' = agentIps
                /\ \A o \in Sockets \ {s} : sockState'[o] = sockState[o]
                /\ IF sockState'[s] = "closed"
                   THEN /\ availableSockets' = Without(availableSockets, s)
                        /\ connectedSockets' = connectedSockets - 1
                   ELSE /\ availableSockets' = availableSockets
                        /\ connectedSockets' = connectedSockets
                /\ (server = "listening" /\ nextSock \in Sockets)
                      => /\ ENABLED OnConnection(nextSock, Addr4)
                         /\ closeNT' = closeNT /\ nextSock' = nextSock]_vars

\* The first of two idle sockets has closed: the second is still idle, a socket is
\* still counted and the listener still listens
C15_Witness ==
    /\ \E s \in admitted : sockState[s] = "closed" /\ s \notin Delivered
                           /\ \E i \in 1..Len(availableSockets) : availableSockets[i] > s
    /\ server = "listening"
    /\ ~closed
    /\ connectedSockets = Len(availableSockets)

\* C16 (safety part): 'end' is raised by the listener's close only, and once: never
\* again on an agent that is closed already.
C16_EndRaisedOnce ==
    [][Raised("end") => (closeNT' < closeNT /\ ~closed)]_vars

\* C17: a socket delivered to a callback, at once or through a hand-off, has not
\* closed at that moment and is still counted in connectedSockets.
C17_DeliveredSocketIsLive ==
    [][\A i \in 1..Len(NewDeliveries) :
          NewDeliveries[i].sock # NoSocket
             => /\ sockState[NewDeliveries[i].sock] \in {"open", "destroyed"}
                /\ NewDeliveries[i].sock \in admitted
                /\ decs[NewDeliveries[i].sock] = 0]_vars

\* C18: the admission that takes a socket for a parked callback removes the callback
\* from the queue and counts the socket, and calls nothing: the callback runs in a
\* later step of its own, which leaves the counter and the queues alone.
C18_HandOffIsDeferred ==
    [][/\ (nextSock' # nextSock /\ waitingCreateConn # <<>>
           /\ connectedSockets < maxTcpSockets)
          => /\ deliveries' = deliveries
             /\ \A i \in 1..Len(effects') : effects'[i].op # "cb"
             /\ waitingCreateConn' = Tail(waitingCreateConn)
             /\ connectedSockets' = connectedSockets + 1
             /\ timers' = Append(timers, <<Head(waitingCreateConn), nextSock>>)
       /\ (\E i \in 1..Len(NewDeliveries) : NewDeliveries[i].via = "handoff")
          => /\ nextSock' = nextSock
             /\ timers # <<>> /\ timers' = Tail(timers)
             /\ NewDeliveries = <<CbCall(Head(timers)[1], Head(timers)[2], "none",
                                         "handoff", closed)>>
             /\ UNCHANGED <<connectedSockets, availableSockets, waitingCreateConn>>]_vars

\* A hand-off has run in a step after the admission, with another admission in
\* between
C18_Witness ==
    /\ \E i \in 1..Len(deliveries) : deliveries[i].via = "handoff" /\ deliveries[i].sock = 1
    /\ Len(effects) = 1 /\ effects[1].via = "handoff"
    /\ nextSock > 2

\* C19: a callback passed to createConnection is called at most once: never with two
\* sockets, never with a socket and the 'closed' error, also when the listener closes
\* with the hand-off to it pending.
C19_CalledAtMostOnce ==
    /\ \A i, j \in 1..Len(deliveries) : deliveries[i].cb = deliveries[j].cb => i = j
    /\ \A i \in 1..Len(deliveries) :
          /\ deliveries[i].cb \notin SeqToSet(waitingCreateConn)
          /\ \A k \in 1..Len(timers) : timers[k][1] # deliveries[i].cb
    /\ \A k \in 1..Len(timers) : timers[k][1] \notin SeqToSet(waitingCreateConn)

\* The listener closed with a hand-off pending: the parked callback got the error,
\* the other one its socket afterwards
C19_Witness ==
    \E i, j \in 1..Len(deliveries) :
       /\ i < j
       /\ deliveries[i].via = "flush"
       /\ deliveries[j].via = "handoff" /\ deliveries[j].closed

\* C20: availableSockets holds only admitted sockets that have not closed and were
\* not delivered, each once; a socket destroyed while idle (timeout, error, peer
\* close) leaves the queue in the step that counts it out, and no createConnection
\* returns it: a socket taken from availableSockets for a callback is not destroyed.
C20_AvailableAreIdleAndConnected ==
    [][/\ \A i \in 1..Len(availableSockets') :
             /\ availableSockets'[i] \in admitted'
             /\ sockState'[availableSockets'[i]] # "closed"
             /\ decs'[availableSockets'[i]] = 0
             /\ availableSockets'[i] \notin Delivered'
             /\ availableSockets'[i] \notin InFlight'
       /\ \A i, k \in 1..Len(availableSockets') :
             availableSockets'[i] = availableSockets'[k] => i = k
       /\ \A s \in SeqToSet(availableSockets) :
             decs'[s] # decs[s] => s \notin SeqToSet(availableSockets')
       /\ \A i \in 1..Len(NewDeliveries) :
             (NewDeliveries[i].via = "sync" /\ NewDeliveries[i].sock # NoSocket)
                => sockState[NewDeliveries[i].sock] = "open"]_vars

====
